---- MODULE Spec2Model ----
(***************************************************************************)
(* Scene graph and storyboard of scene-it (scene-it-engine/src/models).    *)
(*                                                                         *)
(* SceneGraph keeps `edges` (scene id -> set of successor ids) and `roots`.*)
(* Storyboard keeps `scene_bank` (scene id -> scene) and owns a SceneGraph.*)
(* A scene is represented by its metadata version, the only part of a      *)
(* scene the structural operations read or write.                          *)
(*                                                                         *)
(* Every operation is a pure operator from the state before the call and   *)
(* the arguments to the state after the call and the returned value.  An   *)
(* action applies one operation to the current state and records the call  *)
(* (`last`) and the state before it (`pre`); the caller then inspects the  *)
(* result before it issues the next call.                                  *)
(***************************************************************************)
EXTENDS Integers, Sequences, FiniteSets, TLC

VARIABLES edges, roots, scene_bank, last, pre

vars == <<edges, roots, scene_bank, last, pre>>

\* Scene identifiers (Id<Scene>): opaque tokens compared by value.  Every
\* graph over these identifiers is explored, cyclic and dense ones included.
Ids == {"A", "B", "C"}

\* The identifiers of the four-scene scenarios.
ScenarioIds == {"A", "B", "C", "D"}

(***************************************************************************)
(* Values                                                                  *)
(***************************************************************************)

\* Result<StoryboardUpdate, StoryboardError>: Ok(update) or Err(error); `ids`
\* are the identifiers the variant carries, in field order.
Ok(kind, ids) == [ok |-> TRUE, kind |-> kind, ids |-> ids]

Err(kind, ids) == [ok |-> FALSE, kind |-> kind, ids |-> ids]

\* What an operation of SceneGraph yields: the graph after it and its value.
Outcome(e, r, res) == [edges |-> e, roots |-> r, result |-> res]

\* HashMap::new(): the map with no key.
EmptyMap == [k \in {} |-> {}]

\* HashMap::contains_key
contains_key(m, k) == k \in DOMAIN m

\* HashSet::insert on the value stored under key k
insert_into(e, k, id) == [e EXCEPT ![k] = @ \cup {id}]

\* HashSet::remove on the value stored under key k
remove_from(e, k, id) == [e EXCEPT ![k] = @ \ {id}]

\* HashMap::remove
remove_key(m, k) == [x \in (DOMAIN m) \ {k} |-> m[x]]

\* Iteration orders of one HashSet: every HashSet has a hasher of its own
\* (RandomState), so the order in which it yields its items is any
\* arrangement of them, and the orders of two sets are unrelated.
OrdersOf(S) ==
    {o \in [1..Cardinality(S) -> S] : \A i, j \in 1..Cardinality(S) : o[i] = o[j] => i = j}

\* The orders of a HashSet of identifiers that is built during a call.
Orders == OrdersOf(Ids)

\* One iteration order for the successor set of every key in K.
RECURSIVE SuccOrders(_, _)
SuccOrders(e, K) ==
    IF K = {} THEN {[k \in {} |-> <<>>]}
    ELSE LET key == CHOOSE x \in K : TRUE
         IN  {[k \in (DOMAIN f) \cup {key} |-> IF k = key THEN o ELSE f[k]] :
                  f \in SuccOrders(e, K \ {key}), o \in OrdersOf(e[key])}

\* The iteration orders of the HashSets of a graph during one call: one for the
\* root set and one for the successor set of each key, each chosen on its own.
Orderings(e, r) ==
    {[roots |-> ro, succ |-> so] : ro \in OrdersOf(r), so \in SuccOrders(e, DOMAIN e)}

\* The items of set S as a HashSet whose items are arranged as `order` yields
\* them; an item removed from the set leaves the others in place.
iter(S, order) == SelectSeq(order, LAMBDA x : x \in S)

(***************************************************************************)
(* SceneGraph                                                              *)
(***************************************************************************)

\* An add_scene that inserts a fresh successor set whether or not the key exists.
add_scene_resetting(e, r, scene_id) ==
    Outcome([k \in (DOMAIN e) \cup {scene_id} |-> IF k = scene_id THEN {} ELSE e[k]],
            r,
            Ok("SceneAdded", <<scene_id>>))

\* SceneGraph::add_scene: entry(id).or_default()
SceneGraph_add_scene(e, r, scene_id) ==
    Outcome([k \in (DOMAIN e) \cup {scene_id} |-> IF k \in DOMAIN e THEN e[k] ELSE {}],
            r,
            Ok("SceneAdded", <<scene_id>>))

\* SceneGraph::is_descendant: depth-first search with an explicit stack (the
\* last element is the top) and a visited set.
RECURSIVE is_descendant_loop(_, _, _, _, _)
is_descendant_loop(e, stack, visited, target, ord) ==
    IF stack = <<>> THEN FALSE
    ELSE LET node == stack[Len(stack)]
             rest == SubSeq(stack, 1, Len(stack) - 1)
         IN  IF node = target THEN TRUE
             ELSE IF node \notin visited
                  THEN is_descendant_loop(
                           e,
                           IF contains_key(e, node) THEN rest \o iter(e[node], ord.succ[node]) ELSE rest,
                           visited \cup {node}, target, ord)
                  ELSE is_descendant_loop(e, rest, visited, target, ord)

\* The loop of is_descendant with the number of pops it makes: yields whether
\* target was popped and after how many pops the loop was left.
RECURSIVE is_descendant_run(_, _, _, _, _, _)
is_descendant_run(e, stack, visited, target, ord, pops) ==
    IF stack = <<>> THEN [found |-> FALSE, pops |-> pops]
    ELSE LET node == stack[Len(stack)]
             rest == SubSeq(stack, 1, Len(stack) - 1)
         IN  IF node = target THEN [found |-> TRUE, pops |-> pops + 1]
             ELSE IF node \notin visited
                  THEN is_descendant_run(
                           e,
                           IF contains_key(e, node) THEN rest \o iter(e[node], ord.succ[node]) ELSE rest,
                           visited \cup {node}, target, ord, pops + 1)
                  ELSE is_descendant_run(e, rest, visited, target, ord, pops + 1)

\* An is_descendant that starts from the successors of start.
is_descendant_strict(e, start, target, ord) ==
    is_descendant_loop(e, IF contains_key(e, start) THEN iter(e[start], ord.succ[start]) ELSE <<>>,
                       {start}, target, ord)

\* An is_descendant that follows the first successor of each node only.
is_descendant_first_successor(e, start, target, ord) ==
    is_descendant_loop([k \in DOMAIN e |-> {x \in e[k] : iter(e[k], ord.succ[k])[1] = x}],
                       <<start>>, {}, target, ord)

\* An is_descendant that compares the popped node with start, not target.
is_descendant_comparing_start(e, start, target, ord) ==
    is_descendant_loop(e, <<start>>, {}, start, ord)

SceneGraph_is_descendant(e, start, target, ord) ==
    is_descendant_loop(e, <<start>>, {}, target, ord)

\* The first of the identifiers in `ids` that is no key of e, or "" if all are.
RECURSIVE first_missing(_, _)
first_missing(e, ids) ==
    IF ids = <<>> THEN ""
    ELSE IF ~contains_key(e, Head(ids)) THEN Head(ids)
    ELSE first_missing(e, Tail(ids))

\* move_scene with one slip, named by `slip`:
\*   "shortcut_first"  the from = dest return comes before the membership loop
\*   "no_shortcut"     there is no from = dest return
\*   "no_restore"      CycleDetected is returned without re-inserting scene
\*   "keeps_source"    scene is inserted under dest but stays under from
\*   "ignores_removed" the value of HashSet::remove is not looked at
\*   "no_check"        the descendant check is left out
move_scene_with_slip(e, r, scene, from, dest, ord, slip) ==
    LET missing == first_missing(e, <<scene, from, dest>>) IN
    IF slip = "shortcut_first" /\ from = dest
    THEN Outcome(e, r, Ok("Move", <<scene, from, dest>>))
    ELSE IF missing # ""
    THEN Outcome(e, r, Err("SceneNotInGraph", <<missing>>))
    ELSE IF from = dest /\ slip # "no_shortcut"
    THEN Outcome(e, r, Ok("Move", <<scene, from, dest>>))
    ELSE LET removed == scene \in e[from]
             e1 == remove_from(e, from, scene)
         IN  IF ~removed /\ slip # "ignores_removed"
             THEN Outcome(e1, r, Err("InvalidMove", <<scene, from, dest>>))
             ELSE IF slip # "no_check" /\ SceneGraph_is_descendant(e1, dest, scene, ord)
             THEN Outcome(IF slip = "no_restore" THEN e1 ELSE insert_into(e1, from, scene),
                          r, Err("CycleDetected", <<scene, dest>>))
             ELSE Outcome(insert_into(IF slip = "keeps_source" THEN e ELSE e1, dest, scene),
                          r, Ok("Move", <<scene, from, dest>>))

move_scene_shortcut_first(e, r, scene, from, dest, ord) ==
    move_scene_with_slip(e, r, scene, from, dest, ord, "shortcut_first")

move_scene_no_shortcut(e, r, scene, from, dest, ord) ==
    move_scene_with_slip(e, r, scene, from, dest, ord, "no_shortcut")

move_scene_no_restore(e, r, scene, from, dest, ord) ==
    move_scene_with_slip(e, r, scene, from, dest, ord, "no_restore")

move_scene_keeps_source(e, r, scene, from, dest, ord) ==
    move_scene_with_slip(e, r, scene, from, dest, ord, "keeps_source")

move_scene_ignores_removed(e, r, scene, from, dest, ord) ==
    move_scene_with_slip(e, r, scene, from, dest, ord, "ignores_removed")

move_scene_no_check(e, r, scene, from, dest, ord) ==
    move_scene_with_slip(e, r, scene, from, dest, ord, "no_check")

\* SceneGraph::move_scene
SceneGraph_move_scene(e, r, scene, from, dest, ord) ==
    LET missing == first_missing(e, <<scene, from, dest>>) IN
    IF missing # ""
    THEN Outcome(e, r, Err("SceneNotInGraph", <<missing>>))
    ELSE IF from = dest
    THEN Outcome(e, r, Ok("Move", <<scene, from, dest>>))
    ELSE LET removed == scene \in e[from]
             e1 == remove_from(e, from, scene)
         IN  IF ~removed
             THEN Outcome(e1, r, Err("InvalidMove", <<scene, from, dest>>))
             ELSE IF SceneGraph_is_descendant(e1, dest, scene, ord)
             THEN Outcome(insert_into(e1, from, scene), r,
                          Err("CycleDetected", <<scene, dest>>))
             ELSE Outcome(insert_into(e1, dest, scene), r,
                          Ok("Move", <<scene, from, dest>>))

\* SceneGraph::add_root
SceneGraph_add_root(e, r, scene_id) ==
    Outcome(SceneGraph_add_scene(e, r, scene_id).edges,
            r \cup {scene_id},
            Ok("SceneSetAsRoot", <<scene_id>>))

\* An add_edge that stores {dest} as from's successor set.
add_edge_overwriting(e, r, from, dest) ==
    LET e1 == SceneGraph_add_scene(e, r, from).edges
        e2 == SceneGraph_add_scene(e1, r, dest).edges
    IN  Outcome([e2 EXCEPT ![from] = {dest}], r, Ok("LinkedScenes", <<from, dest>>))

\* SceneGraph::add_edge
SceneGraph_add_edge(e, r, from, dest) ==
    LET e1 == SceneGraph_add_scene(e, r, from).edges
        e2 == SceneGraph_add_scene(e1, r, dest).edges
    IN  Outcome(IF contains_key(e2, from) THEN insert_into(e2, from, dest) ELSE e2,
                r,
                Ok("LinkedScenes", <<from, dest>>))

\* A delete_scene that forgets the scan over the remaining successor sets.
delete_scene_without_scan(e, r, scene_id) ==
    IF ~contains_key(e, scene_id)
    THEN Outcome(e, r, Err("SceneNotInGraph", <<scene_id>>))
    ELSE Outcome(remove_key(e, scene_id), r \ {scene_id}, Ok("SceneDeleted", <<scene_id>>))

\* A delete_scene that forgets the roots.
delete_scene_keeping_root(e, r, scene_id) ==
    IF ~contains_key(e, scene_id)
    THEN Outcome(e, r, Err("SceneNotInGraph", <<scene_id>>))
    ELSE LET e1 == remove_key(e, scene_id)
         IN  Outcome([k \in DOMAIN e1 |-> e1[k] \ {scene_id}], r,
                     Ok("SceneDeleted", <<scene_id>>))

\* A delete_scene that clears the roots.
delete_scene_clearing_roots(e, r, scene_id) ==
    IF ~contains_key(e, scene_id)
    THEN Outcome(e, r, Err("SceneNotInGraph", <<scene_id>>))
    ELSE LET e1 == remove_key(e, scene_id)
         IN  Outcome([k \in DOMAIN e1 |-> e1[k] \ {scene_id}], {},
                     Ok("SceneDeleted", <<scene_id>>))

\* SceneGraph::delete_scene
SceneGraph_delete_scene(e, r, scene_id) ==
    IF ~contains_key(e, scene_id)
    THEN Outcome(e, r, Err("SceneNotInGraph", <<scene_id>>))
    ELSE LET e1 == remove_key(e, scene_id)
         IN  Outcome([k \in DOMAIN e1 |-> e1[k] \ {scene_id}],
                     r \ {scene_id},
                     Ok("SceneDeleted", <<scene_id>>))

\* A delete_edge that also requires dest to be a member.
delete_edge_requiring_dest(e, r, from, dest) ==
    IF ~contains_key(e, from)
    THEN Outcome(e, r, Err("SceneNotInGraph", <<from>>))
    ELSE IF ~contains_key(e, dest)
    THEN Outcome(e, r, Err("SceneNotInGraph", <<dest>>))
    ELSE Outcome(remove_from(e, from, dest), r, Ok("EdgeDeleted", <<from, dest>>))

\* SceneGraph::delete_edge
SceneGraph_delete_edge(e, r, from, dest) ==
    IF ~contains_key(e, from)
    THEN Outcome(e, r, Err("SceneNotInGraph", <<from>>))
    ELSE Outcome(remove_from(e, from, dest), r, Ok("EdgeDeleted", <<from, dest>>))

\* SceneGraph::next_scenes: the successors of scene_id, none if it is no key.
SceneGraph_next_scenes(e, scene_id) ==
    IF contains_key(e, scene_id) THEN e[scene_id] ELSE {}

\* The items the iterator of next_scenes yields: the successor set of scene_id
\* in its own iteration order.
next_scenes_items(e, scene_id, ord) ==
    IF contains_key(e, scene_id)
    THEN iter(SceneGraph_next_scenes(e, scene_id), ord.succ[scene_id])
    ELSE <<>>

\* The loop of unreachable_scenes: pop a scene; if it is newly visited, push
\* its successors. Yields the visited scenes.
RECURSIVE unreachable_scenes_loop(_, _, _, _)
unreachable_scenes_loop(e, stack, visited_scenes, ord) ==
    IF stack = <<>> THEN visited_scenes
    ELSE LET scene == stack[Len(stack)]
             rest == SubSeq(stack, 1, Len(stack) - 1)
         IN  IF scene \notin visited_scenes
             THEN unreachable_scenes_loop(
                      e,
                      IF contains_key(e, scene) THEN rest \o iter(e[scene], ord.succ[scene]) ELSE rest,
                      visited_scenes \cup {scene}, ord)
             ELSE unreachable_scenes_loop(e, rest, visited_scenes, ord)

\* The number of pops the loop of unreachable_scenes makes.
RECURSIVE unreachable_scenes_pops(_, _, _, _, _)
unreachable_scenes_pops(e, stack, visited_scenes, ord, pops) ==
    IF stack = <<>> THEN pops
    ELSE LET scene == stack[Len(stack)]
             rest == SubSeq(stack, 1, Len(stack) - 1)
         IN  IF scene \notin visited_scenes
             THEN unreachable_scenes_pops(
                      e,
                      IF contains_key(e, scene) THEN rest \o iter(e[scene], ord.succ[scene]) ELSE rest,
                      visited_scenes \cup {scene}, ord, pops + 1)
             ELSE unreachable_scenes_pops(e, rest, visited_scenes, ord, pops + 1)

\* An unreachable_scenes whose traversal starts from one root only.
unreachable_scenes_from_one_root(e, r, ord) ==
    LET all == iter(r, ord.roots)
        visited_scenes ==
            unreachable_scenes_loop(e, IF all = <<>> THEN <<>> ELSE <<all[1]>>, {}, ord)
    IN  {id \in DOMAIN e : id \notin visited_scenes}

\* An unreachable_scenes that visits the roots and never pushes successors.
unreachable_scenes_of_roots_only(e, r, ord) ==
    {id \in DOMAIN e : id \notin r}

\* SceneGraph::unreachable_scenes: the keys the traversal from all roots does
\* not visit.
SceneGraph_unreachable_scenes(e, r, ord) ==
    LET visited_scenes == unreachable_scenes_loop(e, iter(r, ord.roots), {}, ord)
    IN  {id \in DOMAIN e : id \notin visited_scenes}

\* Lines of standard output: "ROOT: <id>", "<indent>- <id>" with two spaces of
\* indent per level, and the empty line.
RootLine(id) == [tag |-> "ROOT", level |-> 0, id |-> id]

SceneLine(level, id) == [tag |-> "-", level |-> level, id |-> id]

EmptyLine == [tag |-> "", level |-> 0, id |-> ""]

\* The (next, level) pairs print_subtree pushes for the successors of a scene.
pushed(S, level, order) == [i \in 1..Len(iter(S, order)) |-> <<iter(S, order)[i], level>>]

\* The loop of print_subtree: pop the front of the queue; a scene visited
\* before is skipped, a new one is printed and its successors are queued.
\* Yields the lines printed.
RECURSIVE print_subtree_loop(_, _, _, _, _)
print_subtree_loop(e, queue, visited, out, ord) ==
    IF queue = <<>> THEN out
    ELSE LET scene == Head(queue)[1]
             level == Head(queue)[2]
         IN  IF scene \in visited
             THEN print_subtree_loop(e, Tail(queue), visited, out, ord)
             ELSE print_subtree_loop(
                      e,
                      IF contains_key(e, scene)
                      THEN Tail(queue) \o pushed(e[scene], level + 1, ord.succ[scene])
                      ELSE Tail(queue),
                      visited \cup {scene},
                      Append(out, SceneLine(level, scene)),
                      ord)

\* SceneGraph::print_subtree: the lines it prints.
SceneGraph_print_subtree(e, root, ord) ==
    print_subtree_loop(e, <<<<root, 0>>>>, {}, <<>>, ord)

\* The loop of print_from(None) over the roots still to print.
RECURSIVE print_roots(_, _, _)
print_roots(e, rs, ord) ==
    IF rs = <<>> THEN <<>>
    ELSE <<RootLine(Head(rs))>> \o SceneGraph_print_subtree(e, Head(rs), ord)
             \o <<EmptyLine>> \o print_roots(e, Tail(rs), ord)

\* SceneGraph::print_from: the lines it prints; `from` is <<>> for None and
\* <<id>> for Some(id).
SceneGraph_print_from(e, r, from, ord) ==
    IF from # <<>>
    THEN SceneGraph_print_subtree(e, from[1], ord)
    ELSE print_roots(e, iter(r, ord.roots), ord)

(***************************************************************************)
(* State machine of a SceneGraph driven by one caller                      *)
(***************************************************************************)

\* No call is awaiting inspection.
Idle == [op |-> "none", args |-> <<>>, result |-> Ok("none", <<>>)]

NoPre == [edges |-> EmptyMap, roots |-> {}, scene_bank |-> EmptyMap]

\* SceneGraph::new, and Storyboard::default around it.
Init ==
    /\ edges = EmptyMap
    /\ roots = {}
    /\ scene_bank = EmptyMap
    /\ last = Idle
    /\ pre = NoPre

\* One call on the graph: the graph becomes the outcome's graph and the call
\* is recorded with the state it was made on.
GraphCall(op, args, out) ==
    /\ edges' = out.edges
    /\ roots' = out.roots
    /\ last' = [op |-> op, args |-> args, result |-> out.result]
    /\ pre' = [edges |-> edges, roots |-> roots, scene_bank |-> scene_bank]
    /\ UNCHANGED scene_bank

AddScene ==
    /\ last = Idle
    /\ \E id \in Ids :
        GraphCall("add_scene", <<id>>, SceneGraph_add_scene(edges, roots, id))

AddRoot ==
    /\ last = Idle
    /\ \E id \in Ids :
        GraphCall("add_root", <<id>>, SceneGraph_add_root(edges, roots, id))

AddEdge ==
    /\ last = Idle
    /\ \E from, dest \in Ids :
        GraphCall("add_edge", <<from, dest>>, SceneGraph_add_edge(edges, roots, from, dest))

\* The iteration order is an input of the call only once the descendant check
\* runs; a call that returns before it is the same under every order.
MoveOrders(e, scene, from, dest, orders) ==
    IF /\ first_missing(e, <<scene, from, dest>>) = ""
       /\ from # dest
       /\ scene \in e[from]
    THEN orders
    ELSE {CHOOSE o \in orders : TRUE}

MoveScene ==
    /\ last = Idle
    /\ \E scene, from, dest \in Ids :
        \E ord \in MoveOrders(edges, scene, from, dest, Orderings(edges, roots)) :
            GraphCall("move_scene", <<scene, from, dest>>,
                      SceneGraph_move_scene(edges, roots, scene, from, dest, ord))

DeleteScene ==
    /\ last = Idle
    /\ \E id \in Ids :
        GraphCall("delete_scene", <<id>>, SceneGraph_delete_scene(edges, roots, id))

DeleteEdge ==
    /\ last = Idle
    /\ \E from, dest \in Ids :
        GraphCall("delete_edge", <<from, dest>>,
                  SceneGraph_delete_edge(edges, roots, from, dest))

\* unreachable_scenes returns a HashSet; the record of the call holds the
\* items the caller gets by iterating it.
Unreachable(e, r, ord, order) ==
    Outcome(e, r, Ok("HashSet", iter(SceneGraph_unreachable_scenes(e, r, ord), order)))

UnreachableScenes ==
    /\ last = Idle
    /\ \E ord \in Orderings(edges, roots), order \in Orders :
        GraphCall("unreachable_scenes", <<>>, Unreachable(edges, roots, ord, order))

\* is_descendant returns a bool; the record of the call holds it as `kind`.
Bool(b) == Ok(IF b THEN "true" ELSE "false", <<>>)

\* is_descendant is the private helper of move_scene; here it is called on
\* its own, on any two identifiers.
IsDescendant ==
    /\ last = Idle
    /\ \E start, target \in Ids, ord \in Orderings(edges, roots) :
        GraphCall("is_descendant", <<start, target>>,
                  Outcome(edges, roots, Bool(SceneGraph_is_descendant(edges, start, target, ord))))

\* print_from returns nothing; the record of the call holds what it printed.
Printed(e, r, from, ord) ==
    Outcome(e, r, Ok("stdout", SceneGraph_print_from(e, r, from, ord)))

PrintFrom ==
    /\ last = Idle
    /\ \E from \in {<<>>} \cup {<<id>> : id \in Ids}, ord \in Orderings(edges, roots) :
        GraphCall("print_from", from, Printed(edges, roots, from, ord))

\* The caller inspects the returned Result and goes on to its next call.
CallerInspects ==
    /\ last # Idle
    /\ last' = Idle
    /\ pre' = NoPre
    /\ UNCHANGED <<edges, roots, scene_bank>>

Next ==
    \/ AddScene
    \/ AddRoot
    \/ AddEdge
    \/ MoveScene
    \/ DeleteScene
    \/ DeleteEdge
    \/ UnreachableScenes
    \/ IsDescendant
    \/ PrintFrom
    \/ CallerInspects

Spec == Init /\ [][Next]_vars

(***************************************************************************)
(* Graph-theoretic vocabulary of the properties                            *)
(***************************************************************************)

\* The scenes some scene of S transitions to directly.
Successors(e, S) == UNION {SceneGraph_next_scenes(e, x) : x \in S}

\* The scenes reachable from a scene of S by a path of at least one edge.
RECURSIVE Closure(_, _)
Closure(e, S) ==
    LET T == S \cup Successors(e, S) IN IF T = S THEN S ELSE Closure(e, T)

Descendants(e, x) == Closure(e, Successors(e, {x}))

\* No scene is reachable from itself (self-loops included).
Acyclic(e) == \A x \in DOMAIN e : x \notin Descendants(e, x)

\* The graph a move is meant to produce: scene leaves from's successors and
\* joins dest's.
Reparented(e, scene, from, dest) ==
    insert_into(remove_from(e, from, scene), dest, scene)

LastIs(op) == last.op = op

(***************************************************************************)
(* The four-scene scenario: scenes A, B, C, D and edges A->B, B->C, A->D    *)
(* are set up in any order, then move_scene(C, B, A) is called and, right  *)
(* after it, move_scene(B, A, C).                                          *)
(***************************************************************************)

ScenarioEdges == {<<"A", "B">>, <<"B", "C">>, <<"A", "D">>}

\* The graph once the set-up is complete.
ScenarioGraph ==
    [k \in ScenarioIds |-> {x \in ScenarioIds : <<k, x>> \in ScenarioEdges}]

FirstMove == <<"C", "B", "A">>

SecondMove == <<"B", "A", "C">>

ScenarioAddScene ==
    /\ ~LastIs("move_scene")
    /\ \E id \in ScenarioIds :
        GraphCall("add_scene", <<id>>, SceneGraph_add_scene(edges, roots, id))

ScenarioAddEdge ==
    /\ ~LastIs("move_scene")
    /\ \E ft \in ScenarioEdges :
        GraphCall("add_edge", ft, SceneGraph_add_edge(edges, roots, ft[1], ft[2]))

ScenarioFirstMove ==
    /\ ~LastIs("move_scene")
    /\ edges = ScenarioGraph
    /\ \E ord \in Orderings(edges, roots) :
        GraphCall("move_scene", FirstMove,
                  SceneGraph_move_scene(edges, roots, "C", "B", "A", ord))

ScenarioSecondMove ==
    /\ LastIs("move_scene")
    /\ last.args = FirstMove
    /\ pre.edges = ScenarioGraph
    /\ \E ord \in Orderings(edges, roots) :
        GraphCall("move_scene", SecondMove,
                  SceneGraph_move_scene(edges, roots, "B", "A", "C", ord))

ScenarioNext ==
    \/ ScenarioAddScene
    \/ ScenarioAddEdge
    \/ ScenarioFirstMove
    \/ ScenarioSecondMove

SpecScenario == Init /\ [][ScenarioNext]_vars

(***************************************************************************)
(* The orphan scenario: scenes A, B, C are added, A is set as root and      *)
(* edges A->B, B->C are added, in any order; unreachable_scenes is called  *)
(* on the complete graph; delete_edge(B, C) is called on the complete      *)
(* graph and unreachable_scenes right after it.                            *)
(***************************************************************************)

OrphanEdges == {<<"A", "B">>, <<"B", "C">>}

\* The graph once the set-up is complete.
OrphanGraph == [k \in Ids |-> {x \in Ids : <<k, x>> \in OrphanEdges}]

OrphanRoots == {"A"}

OrphanDeletion == <<"B", "C">>

OrphanComplete == edges = OrphanGraph /\ roots = OrphanRoots

\* The edge B->C has been deleted: the scenario is past its set-up.
OrphanDeleted ==
    \/ LastIs("delete_edge")
    \/ LastIs("unreachable_scenes") /\ ~OrphanComplete

OrphanAddScene ==
    /\ ~OrphanDeleted
    /\ \E id \in Ids :
        GraphCall("add_scene", <<id>>, SceneGraph_add_scene(edges, roots, id))

OrphanAddRoot ==
    /\ ~OrphanDeleted
    /\ \E id \in OrphanRoots :
        GraphCall("add_root", <<id>>, SceneGraph_add_root(edges, roots, id))

OrphanAddEdge ==
    /\ ~OrphanDeleted
    /\ \E ft \in OrphanEdges :
        GraphCall("add_edge", ft, SceneGraph_add_edge(edges, roots, ft[1], ft[2]))

OrphanDeleteEdge ==
    /\ ~OrphanDeleted
    /\ OrphanComplete
    /\ GraphCall("delete_edge", OrphanDeletion,
                 SceneGraph_delete_edge(edges, roots, "B", "C"))

OrphanUnreachableScenes ==
    /\ \/ ~OrphanDeleted /\ OrphanComplete
       \/ LastIs("delete_edge")
    /\ \E ord \in Orderings(edges, roots), order \in Orders :
        GraphCall("unreachable_scenes", <<>>, Unreachable(edges, roots, ord, order))

OrphanNext ==
    \/ OrphanAddScene
    \/ OrphanAddRoot
    \/ OrphanAddEdge
    \/ OrphanDeleteEdge
    \/ OrphanUnreachableScenes

SpecOrphan == Init /\ [][OrphanNext]_vars

(***************************************************************************)
(* Storyboard                                                              *)
(***************************************************************************)

\* The model explores scene versions up to MaxVersion; Metadata.version is a
\* u32, so no version of the exploration is near its overflow.
MaxVersion == 3

\* The storyboard is explored up to MaxEdges edges in its graph.
MaxEdges == 2

\* Number of edges of the graph.
RECURSIVE SumCard(_, _)
SumCard(e, K) ==
    IF K = {} THEN 0
    ELSE LET k == CHOOSE x \in K : TRUE IN Cardinality(e[k]) + SumCard(e, K \ {k})

EdgeCount(e) == SumCard(e, DOMAIN e)

\* Metadata::new: version 1.
NewVersion == 1

\* A touch that starts the version over.
touch_resetting(version) == NewVersion

\* HasMetadata::touch: version += 1
touch(version) == version + 1

\* Result<(), StoryboardError>::Ok(())
Unit == Ok("unit", <<>>)

\* What an operation of Storyboard yields: the storyboard after it and its value.
SbOutcome(bank, e, r, res) ==
    [scene_bank |-> bank, edges |-> e, roots |-> r, result |-> res]

\* Storyboard::update_metadata
Storyboard_update_metadata(bank, scene) ==
    IF contains_key(bank, scene) THEN [bank EXCEPT ![scene] = touch(@)] ELSE bank

\* An apply_update that touches only the first scene of the update.
apply_update_touching_first(bank, update) ==
    Storyboard_update_metadata(bank, update.ids[1])

\* An apply_update that touches each scene of the update once, however often
\* the update names it.
apply_update_touching_each_once(bank, update) ==
    [k \in DOMAIN bank |->
        IF k \in {update.ids[i] : i \in DOMAIN update.ids} THEN touch(bank[k]) ELSE bank[k]]

\* Storyboard::apply_update
Storyboard_apply_update(bank, update) ==
    CASE update.kind = "Move" ->
            Storyboard_update_metadata(
                Storyboard_update_metadata(
                    Storyboard_update_metadata(bank, update.ids[1]), update.ids[2]),
                update.ids[3])
      [] update.kind \in {"SceneAdded", "SceneSetAsRoot", "SceneDeleted"} ->
            Storyboard_update_metadata(bank, update.ids[1])
      [] update.kind \in {"LinkedScenes", "EdgeDeleted"} ->
            Storyboard_update_metadata(
                Storyboard_update_metadata(bank, update.ids[1]), update.ids[2])

\* An add_scene that stores the scene and leaves the graph alone.
add_scene_to_bank_only(bank, e, r, id, version) ==
    SbOutcome([k \in (DOMAIN bank) \cup {id} |-> IF k = id THEN version ELSE bank[k]],
              e, r, Unit)

\* Storyboard::add_scene: the scene is `id` with metadata version `version`.
Storyboard_add_scene(bank, e, r, id, version) ==
    SbOutcome([k \in (DOMAIN bank) \cup {id} |-> IF k = id THEN version ELSE bank[k]],
              SceneGraph_add_scene(e, r, id).edges, r, Unit)

\* A move_scene that touches the scene whether or not the graph accepts the move.
move_scene_touching_on_error(bank, e, r, scene, from, to, ord) ==
    LET out == SceneGraph_move_scene(e, r, scene, from, to, ord) IN
    IF ~out.result.ok
    THEN SbOutcome(Storyboard_update_metadata(bank, scene), out.edges, out.roots, out.result)
    ELSE SbOutcome(Storyboard_apply_update(bank, out.result), out.edges, out.roots, Unit)

\* Storyboard::move_scene
Storyboard_move_scene(bank, e, r, scene, from, to, ord) ==
    LET out == SceneGraph_move_scene(e, r, scene, from, to, ord) IN
    IF ~out.result.ok
    THEN SbOutcome(bank, out.edges, out.roots, out.result)
    ELSE SbOutcome(Storyboard_apply_update(bank, out.result), out.edges, out.roots, Unit)

\* A delete_scene that removes the scene from scene_bank only.
delete_scene_from_bank_only(bank, e, r, scene) ==
    IF contains_key(bank, scene)
    THEN SbOutcome(remove_key(bank, scene), e, r, Unit)
    ELSE SbOutcome(bank, e, r, Unit)

\* A delete_scene that deletes from the graph also a scene scene_bank has not.
delete_scene_of_graph_always(bank, e, r, scene) ==
    LET bank1 == remove_key(bank, scene)
        out == SceneGraph_delete_scene(e, r, scene)
    IN  SbOutcome(bank1, out.edges, out.roots, Unit)

\* A delete_scene that touches the scenes the deleted scene was a successor of.
delete_scene_touching_predecessors(bank, e, r, scene) ==
    IF contains_key(bank, scene)
    THEN LET bank1 == remove_key(bank, scene)
             out == SceneGraph_delete_scene(e, r, scene)
         IN  SbOutcome([k \in DOMAIN bank1 |->
                           IF scene \in SceneGraph_next_scenes(e, k)
                           THEN touch(bank1[k]) ELSE bank1[k]],
                       out.edges, out.roots, Unit)
    ELSE SbOutcome(bank, e, r, Unit)

\* Storyboard::delete_scene
Storyboard_delete_scene(bank, e, r, scene) ==
    IF contains_key(bank, scene)
    THEN LET bank1 == remove_key(bank, scene)
             out == SceneGraph_delete_scene(e, r, scene)
         IN  IF ~out.result.ok
             THEN SbOutcome(bank1, out.edges, out.roots, out.result)
             ELSE SbOutcome(Storyboard_apply_update(bank1, out.result),
                            out.edges, out.roots, Unit)
    ELSE SbOutcome(bank, e, r, Unit)

\* Storyboard::set_scene_as_root
Storyboard_set_scene_as_root(bank, e, r, scene_id) ==
    LET out == SceneGraph_add_root(e, r, scene_id)
    IN  SbOutcome(bank, out.edges, out.roots, Unit)

\* A link_scenes that adds the edge before it looks at scene_bank.
link_scenes_validating_after(bank, e, r, from, to) ==
    LET out == SceneGraph_add_edge(e, r, from, to) IN
    IF ~contains_key(bank, from)
    THEN SbOutcome(bank, out.edges, out.roots, Err("UnknownScene", <<from>>))
    ELSE IF ~contains_key(bank, to)
    THEN SbOutcome(bank, out.edges, out.roots, Err("UnknownScene", <<to>>))
    ELSE SbOutcome(Storyboard_apply_update(bank, out.result),
                   out.edges, out.roots, Unit)

\* Storyboard::link_scenes
Storyboard_link_scenes(bank, e, r, from, to) ==
    IF ~contains_key(bank, from)
    THEN SbOutcome(bank, e, r, Err("UnknownScene", <<from>>))
    ELSE IF ~contains_key(bank, to)
    THEN SbOutcome(bank, e, r, Err("UnknownScene", <<to>>))
    ELSE LET out == SceneGraph_add_edge(e, r, from, to)
         IN  SbOutcome(Storyboard_apply_update(bank, out.result),
                       out.edges, out.roots, Unit)

\* An unlink_scenes that looks up `to` in scene_bank before `from`.
unlink_scenes_dest_first(bank, e, r, from, to) ==
    IF ~contains_key(bank, to)
    THEN SbOutcome(bank, e, r, Err("UnknownScene", <<to>>))
    ELSE IF ~contains_key(bank, from)
    THEN SbOutcome(bank, e, r, Err("UnknownScene", <<from>>))
    ELSE LET out == SceneGraph_delete_edge(e, r, from, to)
         IN  IF ~out.result.ok
             THEN SbOutcome(bank, out.edges, out.roots, out.result)
             ELSE SbOutcome(Storyboard_apply_update(bank, out.result),
                            out.edges, out.roots, Unit)

\* Storyboard::unlink_scenes
Storyboard_unlink_scenes(bank, e, r, from, to) ==
    IF ~contains_key(bank, from)
    THEN SbOutcome(bank, e, r, Err("UnknownScene", <<from>>))
    ELSE IF ~contains_key(bank, to)
    THEN SbOutcome(bank, e, r, Err("UnknownScene", <<to>>))
    ELSE LET out == SceneGraph_delete_edge(e, r, from, to)
         IN  IF ~out.result.ok
             THEN SbOutcome(bank, out.edges, out.roots, out.result)
             ELSE SbOutcome(Storyboard_apply_update(bank, out.result),
                            out.edges, out.roots, Unit)

\* Storyboard::standalone_scenes
Storyboard_standalone_scenes(bank, e, r, ord) ==
    SceneGraph_unreachable_scenes(e, r, ord)

(***************************************************************************)
(* State machine of a Storyboard driven by one caller                      *)
(***************************************************************************)

\* One call on the storyboard.  Calls that would take a version past
\* MaxVersion or the graph past MaxEdges edges are left out of the exploration.
StoryboardCall(op, args, out) ==
    /\ \A k \in DOMAIN out.scene_bank : out.scene_bank[k] <= MaxVersion
    /\ EdgeCount(out.edges) <= MaxEdges
    /\ scene_bank' = out.scene_bank
    /\ edges' = out.edges
    /\ roots' = out.roots
    /\ last' = [op |-> op, args |-> args, result |-> out.result]
    /\ pre' = [edges |-> edges, roots |-> roots, scene_bank |-> scene_bank]

SbAddScene ==
    /\ last = Idle
    /\ \E id \in Ids, version \in NewVersion..MaxVersion :
        StoryboardCall("add_scene", <<id, version>>,
                       Storyboard_add_scene(scene_bank, edges, roots, id, version))

SbMoveScene ==
    /\ last = Idle
    /\ \E scene, from, to \in Ids :
        \E ord \in MoveOrders(edges, scene, from, to, Orderings(edges, roots)) :
            StoryboardCall("move_scene", <<scene, from, to>>,
                           Storyboard_move_scene(scene_bank, edges, roots, scene, from, to, ord))

SbDeleteScene ==
    /\ last = Idle
    /\ \E id \in Ids :
        StoryboardCall("delete_scene", <<id>>,
                       Storyboard_delete_scene(scene_bank, edges, roots, id))

SbSetSceneAsRoot ==
    /\ last = Idle
    /\ \E id \in Ids :
        StoryboardCall("set_scene_as_root", <<id>>,
                       Storyboard_set_scene_as_root(scene_bank, edges, roots, id))

SbLinkScenes ==
    /\ last = Idle
    /\ \E from, to \in Ids :
        StoryboardCall("link_scenes", <<from, to>>,
                       Storyboard_link_scenes(scene_bank, edges, roots, from, to))

SbUnlinkScenes ==
    /\ last = Idle
    /\ \E from, to \in Ids :
        StoryboardCall("unlink_scenes", <<from, to>>,
                       Storyboard_unlink_scenes(scene_bank, edges, roots, from, to))

StoryboardNext ==
    \/ SbAddScene
    \/ SbMoveScene
    \/ SbDeleteScene
    \/ SbSetSceneAsRoot
    \/ SbLinkScenes
    \/ SbUnlinkScenes
    \/ CallerInspects

SpecStoryboard == Init /\ [][StoryboardNext]_vars

(***************************************************************************)
(* The earlier SceneGraph (src/src/models/scene_graph.rs)                   *)
(***************************************************************************)

\* Earlier SceneGraph::add_scene; it returns nothing.
Earlier_add_scene(e, r, scene_id) ==
    Outcome(IF contains_key(e, scene_id)
            THEN e
            ELSE [k \in (DOMAIN e) \cup {scene_id} |-> IF k = scene_id THEN {} ELSE e[k]],
            r, Unit)

\* Earlier SceneGraph::add_edge
Earlier_add_edge(e, r, from, to) ==
    LET e1 == Earlier_add_scene(e, r, from).edges
        e2 == Earlier_add_scene(e1, r, to).edges
    IN  Outcome(insert_into(e2, from, to), r, Ok("LinkedScenes", <<from, to>>))

\* Earlier SceneGraph::is_descendant
Earlier_is_descendant(e, start, target, ord) ==
    is_descendant_loop(e, <<start>>, {}, target, ord)

\* The earlier move_scene; with `reversed` the descendant check runs from `to`
\* to `scene`.
earlier_move_scene_with(e, r, scene, from, to, ord, reversed) ==
    IF ~contains_key(e, scene) THEN Outcome(e, r, Err("UnknownScene", <<scene>>))
    ELSE IF ~contains_key(e, from) THEN Outcome(e, r, Err("UnknownScene", <<from>>))
    ELSE IF ~contains_key(e, to) THEN Outcome(e, r, Err("UnknownScene", <<to>>))
    ELSE IF scene \notin e[from]
    THEN Outcome(e, r, Err("InvalidMove", <<scene, from, to>>))
    ELSE LET e1 == remove_from(e, from, scene)
         IN  IF (IF reversed
                 THEN Earlier_is_descendant(e1, to, scene, ord)
                 ELSE Earlier_is_descendant(e1, scene, to, ord))
             THEN Outcome(insert_into(e1, from, scene), r,
                          Err("CycleDetected", <<scene, to>>))
             ELSE Outcome(insert_into(e1, to, scene), r, Ok("Move", <<scene, from, to>>))

earlier_move_scene_reversed_check(e, r, scene, from, to, ord) ==
    earlier_move_scene_with(e, r, scene, from, to, ord, TRUE)

\* Earlier SceneGraph::move_scene
Earlier_move_scene(e, r, scene, from, to, ord) ==
    earlier_move_scene_with(e, r, scene, from, to, ord, FALSE)

\* Earlier SceneGraph::add_root
Earlier_add_root(e, r, scene_id) ==
    Outcome(Earlier_add_scene(e, r, scene_id).edges,
            r \cup {scene_id},
            Ok("SceneSetAsRoot", <<scene_id>>))

\* Earlier SceneGraph::delete_scene
Earlier_delete_scene(e, r, scene_id) ==
    IF ~contains_key(e, scene_id)
    THEN Outcome(e, r, Err("UnknownScene", <<scene_id>>))
    ELSE LET e1 == remove_key(e, scene_id)
         IN  Outcome([k \in DOMAIN e1 |-> e1[k] \ {scene_id}],
                     r \ {scene_id},
                     Ok("SceneDeleted", <<scene_id>>))

\* Earlier SceneGraph::delete_edge
Earlier_delete_edge(e, r, from, to) ==
    IF ~contains_key(e, from)
    THEN Outcome(e, r, Err("UnknownScene", <<from>>))
    ELSE Outcome(remove_from(e, from, to), r, Ok("EdgeDeleted", <<from, to>>))

EarlierAddScene ==
    /\ last = Idle
    /\ \E id \in Ids :
        GraphCall("add_scene", <<id>>, Earlier_add_scene(edges, roots, id))

EarlierAddEdge ==
    /\ last = Idle
    /\ \E from, to \in Ids :
        GraphCall("add_edge", <<from, to>>, Earlier_add_edge(edges, roots, from, to))

EarlierMoveScene ==
    /\ last = Idle
    /\ \E scene, from, to \in Ids :
        \E ord \in Orderings(edges, roots) :
            GraphCall("move_scene", <<scene, from, to>>,
                      Earlier_move_scene(edges, roots, scene, from, to, ord))

EarlierAddRoot ==
    /\ last = Idle
    /\ \E id \in Ids :
        GraphCall("add_root", <<id>>, Earlier_add_root(edges, roots, id))

EarlierDeleteScene ==
    /\ last = Idle
    /\ \E id \in Ids :
        GraphCall("delete_scene", <<id>>, Earlier_delete_scene(edges, roots, id))

EarlierDeleteEdge ==
    /\ last = Idle
    /\ \E from, to \in Ids :
        GraphCall("delete_edge", <<from, to>>, Earlier_delete_edge(edges, roots, from, to))

EarlierNext ==
    \/ EarlierAddScene
    \/ EarlierAddRoot
    \/ EarlierAddEdge
    \/ EarlierMoveScene
    \/ EarlierDeleteScene
    \/ EarlierDeleteEdge
    \/ CallerInspects

SpecEarlier == Init /\ [][EarlierNext]_vars

(***************************************************************************)
(* Title                                                                   *)
(*                                                                         *)
(* A string is the sequence of its characters.  Characters are named by    *)
(* one-character strings, but for the tab "TAB" (whitespace and control)   *)
(* and the bell "BEL" (control, no whitespace).                            *)
(***************************************************************************)

\* Inputs are explored up to MaxInputLen characters, each alone and followed
\* by LongWord.
MaxInputLen == 4

\* The length a title may not exceed.
MaxTitleChars == 100

InputChars == {"a", " ", "TAB", "BEL"}

char_is_whitespace(c) == c \in {" ", "TAB"}

char_is_control(c) == c \in {"TAB", "BEL"}

\* The positions of the characters of str that are no whitespace.
solid_positions(str) == {i \in 1..Len(str) : ~char_is_whitespace(str[i])}

\* The k-th smallest number of the set S.
nth(S, k) == CHOOSE i \in S : Cardinality({j \in S : j <= i}) = k

\* str::trim: the string from its first to its last non-whitespace character.
trim(str) ==
    LET solid == solid_positions(str) IN
    IF solid = {} THEN <<>>
    ELSE SubSeq(str, nth(solid, 1), nth(solid, Cardinality(solid)))

\* str::split_whitespace: the maximal runs of non-whitespace characters, in
\* order; a run starts after whitespace or at the start and ends before
\* whitespace or at the end.
split_whitespace(str) ==
    LET solid == solid_positions(str)
        starts == {i \in solid : i = 1 \/ char_is_whitespace(str[i - 1])}
        ends == {i \in solid : i = Len(str) \/ char_is_whitespace(str[i + 1])}
    IN  [k \in 1..Cardinality(starts) |-> SubSeq(str, nth(starts, k), nth(ends, k))]

\* [&str]::join
RECURSIVE join(_, _)
join(words, sep) ==
    IF words = <<>> THEN <<>>
    ELSE IF Len(words) = 1 THEN words[1]
    ELSE words[1] \o sep \o join(Tail(words), sep)

\* A trim_input that trims the ends and leaves the inside of the string alone.
trim_input_of_ends_only(input) == trim(input)

\* utils::trim_input
trim_input(input) == join(split_whitespace(trim(input)), <<" ">>)

\* Title::new
Title_new(input) ==
    LET trimmed == trim_input(input) IN
    IF trimmed = <<>> THEN Err("EmptyTitle", <<>>)
    ELSE IF Len(trimmed) > MaxTitleChars THEN Err("TooLong", <<>>)
    ELSE IF \E i \in 1..Len(trimmed) : char_is_control(trimmed[i])
    THEN Err("ContainsControlChars", <<>>)
    ELSE Ok("Title", trimmed)

\* Title::as_str of the title a call returned.
Title_as_str(result) == result.ids

\* A word of MaxTitleChars characters.
LongWord == [i \in 1..MaxTitleChars |-> "a"]

\* The input of the test creating_title_with_valid_name_works, and the title
\* it expects.
ExampleInput ==
    <<"S", "c", "o", "t", "t", " ", "P", "i", "l", "g", "r", "i", "m",
      " ", " ", " ", " ", " ", " ", "v", "s", ".", " ", " ", " ", " ", " ",
      "T", "h", "e", " ", "W", "o", "r", "l", "d">>

ExampleTitle ==
    <<"S", "c", "o", "t", "t", " ", "P", "i", "l", "g", "r", "i", "m",
      " ", "v", "s", ".", " ", "T", "h", "e", " ", "W", "o", "r", "l", "d">>

ShortInputs == UNION {[1..n -> InputChars] : n \in 0..MaxInputLen}

TitleInputs ==
    ShortInputs \cup {input \o LongWord : input \in ShortInputs} \cup {ExampleInput}

TitleCall(input) ==
    /\ last' = [op |-> "Title::new", args |-> <<input>>, result |-> Title_new(input)]
    /\ UNCHANGED <<edges, roots, scene_bank, pre>>

\* A caller makes a title of an input string.
TitleNew ==
    /\ last = Idle
    /\ \E input \in TitleInputs : TitleCall(input)

\* A caller makes a title of the string of the title it has got.
TitleNewOfTitle ==
    /\ LastIs("Title::new")
    /\ last.result.ok
    /\ last.args[1] # Title_as_str(last.result)
    /\ TitleCall(Title_as_str(last.result))

TitleNext ==
    \/ TitleNew
    \/ TitleNewOfTitle
    \/ CallerInspects

SpecTitle == Init /\ [][TitleNext]_vars

(***************************************************************************)
(* CharacterName and AuthorName                                            *)
(*                                                                         *)
(* String::len counts bytes; every character of the inputs explored is one *)
(* byte long, so the length of a name is the length of its sequence.       *)
(***************************************************************************)

\* The length CharacterName::new compares the name with.
CharacterNameLimit == 100

\* The length AuthorName::new compares the name with.
AuthorNameLimit == 100

has_control_chars(name) == \E i \in 1..Len(name) : char_is_control(name[i])

\* CharacterName::new
CharacterName_new(input) ==
    LET name == trim_input(input) IN
    IF name = <<>> THEN Err("NameEmpty", <<>>)
    ELSE IF Len(name) < CharacterNameLimit THEN Err("NameTooLong", <<>>)
    ELSE IF has_control_chars(name) THEN Err("NameContainsControlChars", <<>>)
    ELSE Ok("CharacterName", name)

\* AuthorName::new
AuthorName_new(input) ==
    LET name == trim_input(input) IN
    IF name = <<>> THEN Err("EmptyName", <<>>)
    ELSE IF Len(name) > AuthorNameLimit THEN Err("NameTooLong", <<>>)
    ELSE IF has_control_chars(name) THEN Err("NameContainsControlChars", <<>>)
    ELSE Ok("AuthorName", name)

NameCall(op, input, result) ==
    /\ last' = [op |-> op, args |-> <<input>>, result |-> result]
    /\ UNCHANGED <<edges, roots, scene_bank, pre>>

CharacterNameNew ==
    /\ last = Idle
    /\ \E input \in TitleInputs :
        NameCall("CharacterName::new", input, CharacterName_new(input))

AuthorNameNew ==
    /\ last = Idle
    /\ \E input \in TitleInputs :
        NameCall("AuthorName::new", input, AuthorName_new(input))

NamesNext ==
    \/ CharacterNameNew
    \/ AuthorNameNew
    \/ CallerInspects

SpecNames == Init /\ [][NamesNext]_vars

(***************************************************************************)
(* Properties of SceneGraph                                                *)
(***************************************************************************)

\* C1: no dangling references: in every state reached from the empty graph
\* by the public operations, every identifier in a successor set is a key of
\* `edges`.
C1_NoDanglingReferences ==
    \A k \in DOMAIN edges : edges[k] \subseteq DOMAIN edges

\* C1 case: a scene that other scenes pointed to has just been deleted.
C1_Witness ==
    /\ LastIs("delete_scene")
    /\ last.result.ok
    /\ \E k \in DOMAIN edges : last.args[1] \in pre.edges[k]

\* C2: roots is a subset of the keys of `edges` in every reachable state.
C2_RootsAreMembers == roots \subseteq DOMAIN edges

\* C2 case: a root has just been deleted while another root remains.
C2_Witness ==
    /\ LastIs("delete_scene")
    /\ last.result.ok
    /\ last.args[1] \in pre.roots
    /\ roots # {}

\* C4: a successful move_scene on an acyclic graph leaves the graph acyclic.
C4_SuccessfulMoveKeepsAcyclic ==
    (LastIs("move_scene") /\ last.result.ok /\ Acyclic(pre.edges)) => Acyclic(edges)

\* C5: whenever move_scene returns CycleDetected(scene, dest), the move, had it
\* been performed, would have made scene reachable from itself.
C5_CycleDetectedMeansCycle ==
    (LastIs("move_scene") /\ last.result.kind = "CycleDetected")
        => LET scene == last.args[1]
               from == last.args[2]
               dest == last.args[3]
           IN  scene \in Descendants(Reparented(pre.edges, scene, from, dest), scene)

\* C6: a move_scene that returns an error leaves `edges` and `roots` as they
\* were before the call; after CycleDetected the edge from -> scene is present.
C6_FailedMoveChangesNothing ==
    (LastIs("move_scene") /\ ~last.result.ok)
        => /\ edges = pre.edges
           /\ roots = pre.roots
           /\ last.result.kind \in {"SceneNotInGraph", "InvalidMove", "CycleDetected"}
           /\ last.result.kind = "CycleDetected" => last.args[1] \in edges[last.args[2]]

\* C6 case: a move has just failed with CycleDetected.
C6_Witness ==
    /\ LastIs("move_scene")
    /\ last.result.kind = "CycleDetected"
    /\ last.args[1] \in pre.edges[last.args[2]]

\* C7: after a successful move_scene with from # dest, scene is no successor
\* of from and is a successor of dest; the keys, the roots and the successor
\* set of every other scene are unchanged.
C7_SuccessfulMoveReparents ==
    (LastIs("move_scene") /\ last.result.ok /\ last.args[2] # last.args[3])
        => LET scene == last.args[1]
               from == last.args[2]
               dest == last.args[3]
           IN  /\ scene \notin SceneGraph_next_scenes(edges, from)
               /\ scene \in SceneGraph_next_scenes(edges, dest)
               /\ DOMAIN edges = DOMAIN pre.edges
               /\ roots = pre.roots
               /\ \A k \in (DOMAIN edges) \ {from, dest} : edges[k] = pre.edges[k]
               /\ edges[from] = pre.edges[from] \ {scene}
               /\ edges[dest] = pre.edges[dest] \cup {scene}

\* C7 case: a move between two different parents has just succeeded on a graph
\* with a root and with a third scene that has successors of its own.
C7_Witness ==
    /\ LastIs("move_scene")
    /\ last.result.ok
    /\ last.args[2] # last.args[3]
    /\ roots # {}
    /\ \E k \in (DOMAIN edges) \ {last.args[2], last.args[3]} : edges[k] # {}

\* C9: if one of scene, from, dest is no key of `edges`, move_scene returns
\* SceneNotInGraph of the first missing one in the order scene, from, dest,
\* also when from = dest.
C9_MembershipCheckedFirst ==
    LET scene == last.args[1]
        from == last.args[2]
        dest == last.args[3]
        K == DOMAIN pre.edges
    IN  (LastIs("move_scene") /\ ~({scene, from, dest} \subseteq K))
            => last.result =
                   Err("SceneNotInGraph",
                       <<IF scene \notin K THEN scene
                         ELSE IF from \notin K THEN from ELSE dest>>)

\* C9 case: move_scene was called with from = dest missing and scene present.
C9_Witness ==
    /\ LastIs("move_scene")
    /\ last.args[2] = last.args[3]
    /\ last.args[1] \in DOMAIN pre.edges
    /\ last.args[2] \notin DOMAIN pre.edges

\* C10: with all three identifiers members and from = dest, move_scene returns
\* Ok(Move{scene, from, dest}) and changes neither `edges` nor `roots`.
C10_SameParentMoveIsNoOp ==
    (/\ LastIs("move_scene")
     /\ last.args[2] = last.args[3]
     /\ {last.args[1], last.args[2]} \subseteq DOMAIN pre.edges)
        => /\ last.result = Ok("Move", last.args)
           /\ edges = pre.edges
           /\ roots = pre.roots

\* C10 case: from = dest and scene is not a successor of from.
C10_Witness ==
    /\ LastIs("move_scene")
    /\ last.args[2] = last.args[3]
    /\ {last.args[1], last.args[2]} \subseteq DOMAIN pre.edges
    /\ last.args[1] \notin pre.edges[last.args[2]]
    /\ last.args[1] # last.args[2]

\* C8 (as amended): on the graph with scenes A, B, C, D and edges A->B, B->C,
\* A->D, move_scene(C, B, A) succeeds, C becoming a successor of A and no
\* longer one of B; the following move_scene(B, A, C) succeeds too, B
\* becoming a successor of C: once C has left B, C cannot reach B and B
\* cannot reach C, so the move closes no loop.
C8_ScenarioMovesBothSucceed ==
    /\ (LastIs("move_scene") /\ last.args = FirstMove)
           => /\ last.result = Ok("Move", FirstMove)
              /\ "C" \in SceneGraph_next_scenes(edges, "A")
              /\ "C" \notin SceneGraph_next_scenes(edges, "B")
    /\ (LastIs("move_scene") /\ last.args = SecondMove)
           => /\ last.result = Ok("Move", SecondMove)
              /\ "B" \in SceneGraph_next_scenes(edges, "C")
              /\ "B" \notin SceneGraph_next_scenes(edges, "A")
              /\ Acyclic(edges)

\* C8 case: both moves of the scenario have been made.
C8_Witness ==
    /\ LastIs("move_scene")
    /\ last.args = SecondMove
    /\ pre.edges = Reparented(ScenarioGraph, "C", "B", "A")

\* C8 (as claimed): the first move succeeds and the second one fails with
\* CycleDetected.
C8_ScenarioSecondMoveIsCycle ==
    /\ (LastIs("move_scene") /\ last.args = FirstMove)
           => /\ last.result = Ok("Move", FirstMove)
              /\ "C" \in SceneGraph_next_scenes(edges, "A")
              /\ "C" \notin SceneGraph_next_scenes(edges, "B")
    /\ (LastIs("move_scene") /\ last.args = SecondMove)
           => last.result.kind = "CycleDetected"

(***************************************************************************)
(* Properties of Storyboard                                                *)
(***************************************************************************)

\* C3: starting from an empty Storyboard, after any sequence of add_scene,
\* link_scenes, unlink_scenes, move_scene, delete_scene and set_scene_as_root
\* calls the scene graph has no directed cycle (self-loops included).
C3_StoryboardGraphAcyclic == Acyclic(edges)

(***************************************************************************)
(* Further properties of SceneGraph                                        *)
(***************************************************************************)

\* How many times x occurs in sequence q.
Occurrences(q, x) == Cardinality({i \in 1..Len(q) : q[i] = x})

\* C11: with scene, from and dest members, from # dest and scene no successor
\* of from, move_scene returns InvalidMove{scene, from, dest}, also when dest
\* reaches scene, and leaves the graph unchanged.
C11_InvalidMoveWithoutSourceEdge ==
    LET scene == last.args[1]
        from == last.args[2]
        dest == last.args[3]
    IN  (/\ LastIs("move_scene")
         /\ {scene, from, dest} \subseteq DOMAIN pre.edges
         /\ from # dest
         /\ scene \notin pre.edges[from])
            => /\ last.result = Err("InvalidMove", <<scene, from, dest>>)
               /\ edges = pre.edges
               /\ roots = pre.roots

\* C11 case: scene is no successor of from while dest reaches scene.
C11_Witness ==
    /\ LastIs("move_scene")
    /\ last.result.kind = "InvalidMove"
    /\ last.args[1] # last.args[3]
    /\ last.args[1] \in Descendants(pre.edges, last.args[3])

\* C12: delete_scene(id) of a non-member returns SceneNotInGraph(id) and
\* changes nothing; of a member it removes id from the keys, from roots and
\* from every remaining successor set, and changes no other key, root or edge.
C12_DeleteSceneEffect ==
    LET id == last.args[1] IN
    LastIs("delete_scene")
        => IF id \notin DOMAIN pre.edges
           THEN /\ last.result = Err("SceneNotInGraph", <<id>>)
                /\ edges = pre.edges
                /\ roots = pre.roots
           ELSE /\ last.result = Ok("SceneDeleted", <<id>>)
                /\ DOMAIN edges = (DOMAIN pre.edges) \ {id}
                /\ roots = pre.roots \ {id}
                /\ \A x \in Ids : id \notin SceneGraph_next_scenes(edges, x)
                /\ \A k \in DOMAIN edges : edges[k] = pre.edges[k] \ {id}

\* C12 case: the deleted scene was a root with a predecessor, and another root
\* and an edge between other scenes remain.
C12_Witness ==
    /\ LastIs("delete_scene")
    /\ last.result.ok
    /\ last.args[1] \in pre.roots
    /\ \E k \in DOMAIN edges : last.args[1] \in pre.edges[k]
    /\ roots # {}
    /\ \E k \in DOMAIN edges : edges[k] # {}

\* C13: delete_edge(from, dest) with from no member returns
\* SceneNotInGraph(from) and changes nothing; otherwise it returns
\* Ok(EdgeDeleted) and the only change is that dest is no successor of from,
\* whether or not the edge existed and whether or not dest is a member.
C13_DeleteEdgeEffect ==
    LET from == last.args[1]
        dest == last.args[2]
    IN  LastIs("delete_edge")
            => IF from \notin DOMAIN pre.edges
               THEN /\ last.result = Err("SceneNotInGraph", <<from>>)
                    /\ edges = pre.edges
                    /\ roots = pre.roots
               ELSE /\ last.result = Ok("EdgeDeleted", <<from, dest>>)
                    /\ DOMAIN edges = DOMAIN pre.edges
                    /\ roots = pre.roots
                    /\ edges[from] = pre.edges[from] \ {dest}
                    /\ \A k \in (DOMAIN edges) \ {from} : edges[k] = pre.edges[k]

\* C13 case: from is a member with successors and dest is no member.
C13_Witness ==
    /\ LastIs("delete_edge")
    /\ last.result.ok
    /\ last.args[2] \notin DOMAIN pre.edges
    /\ pre.edges[last.args[1]] # {}
    /\ edges = pre.edges

\* C14: after add_edge(from, dest) both are members and next_scenes(from)
\* yields dest exactly once; calling it again gives the same `edges` and
\* `roots`; no other edge is removed or altered.
C14_AddEdgeIdempotent ==
    LET from == last.args[1]
        dest == last.args[2]
        again == SceneGraph_add_edge(edges, roots, from, dest)
    IN  LastIs("add_edge")
            => /\ last.result = Ok("LinkedScenes", <<from, dest>>)
               /\ {from, dest} \subseteq DOMAIN edges
               /\ \A ord \in Orderings(edges, roots) : Occurrences(next_scenes_items(edges, from, ord), dest) = 1
               /\ again.edges = edges
               /\ again.roots = roots
               /\ roots = pre.roots
               /\ DOMAIN edges = (DOMAIN pre.edges) \cup {from, dest}
               /\ \A k \in DOMAIN edges :
                      edges[k] = (IF k \in DOMAIN pre.edges THEN pre.edges[k] ELSE {})
                                     \cup (IF k = from THEN {dest} ELSE {})

\* C14 case: the edge was there already and from has other successors.
C14_Witness ==
    /\ LastIs("add_edge")
    /\ last.args[1] \in DOMAIN pre.edges
    /\ last.args[2] \in pre.edges[last.args[1]]
    /\ pre.edges[last.args[1]] # {last.args[2]}

\* C15: add_scene(id) makes an absent id a member with no successor, and
\* leaves the successor set of a member, all other edges and `roots` as they
\* were; calling it again changes nothing.
C15_AddSceneNonDestructive ==
    LET id == last.args[1] IN
    LastIs("add_scene")
        => /\ last.result = Ok("SceneAdded", <<id>>)
           /\ roots = pre.roots
           /\ DOMAIN edges = (DOMAIN pre.edges) \cup {id}
           /\ \A k \in DOMAIN pre.edges : edges[k] = pre.edges[k]
           /\ id \notin DOMAIN pre.edges => SceneGraph_next_scenes(edges, id) = {}
           /\ SceneGraph_add_scene(edges, roots, id).edges = edges

\* C15 case: the scene added was a member with successors already.
C15_Witness ==
    /\ LastIs("add_scene")
    /\ last.args[1] \in DOMAIN pre.edges
    /\ pre.edges[last.args[1]] # {}

\* The elements of sequence q.
Range(q) == {q[i] : i \in 1..Len(q)}

\* The members no root reaches by a path of zero or more edges.
Unreached(e, r) ==
    {m \in DOMAIN e : \A x \in r : m # x /\ m \notin Descendants(e, x)}

\* C16: unreachable_scenes() is the set of members that no root reaches by a
\* path of length >= 0, under every iteration order; so it holds no root, it
\* is the whole member set when there is no root, and it is the members but r
\* when r is the only root and has no successor. The graph is not changed.
C16_UnreachableIsUnreached ==
    LET result == Range(last.result.ids) IN
    LastIs("unreachable_scenes")
        => /\ result = Unreached(edges, roots)
           /\ result \cap roots = {}
           /\ roots = {} => result = DOMAIN edges
           /\ \A x \in Ids : (roots = {x} /\ edges[x] = {}) => result = (DOMAIN edges) \ {x}
           /\ \A ord \in Orderings(edges, roots) :
                  /\ SceneGraph_unreachable_scenes(edges, roots, ord) = result
                  /\ Storyboard_standalone_scenes(scene_bank, edges, roots, ord) = result
           /\ edges = pre.edges
           /\ roots = pre.roots

\* C16 case: two roots on a cycle, and a member that neither reaches.
C16_Witness ==
    /\ LastIs("unreachable_scenes")
    /\ Cardinality(roots) = 2
    /\ \E x \in roots : x \in Descendants(edges, x)
    /\ last.result.ids # <<>>

\* C17: in the orphan scenario, unreachable_scenes() on the complete graph
\* yields nothing, and unreachable_scenes() right after delete_edge(B, C)
\* yields exactly C.
C17_OrphanScenario ==
    [][last'.op = "unreachable_scenes"
           => IF LastIs("delete_edge")
              THEN Range(last'.result.ids) = {"C"}
              ELSE last'.result.ids = <<>>]_vars

\* C17 case: unreachable_scenes has been called after delete_edge(B, C).
C17_Witness ==
    /\ LastIs("unreachable_scenes")
    /\ OrphanDeleted
    /\ edges = remove_from(OrphanGraph, "B", "C")
    /\ roots = OrphanRoots
    /\ last.result.ids = <<"C">>

(***************************************************************************)
(* Further properties of Storyboard                                        *)
(***************************************************************************)

GraphUnchanged == edges = pre.edges /\ roots = pre.roots

\* C18: link_scenes(from, dest) returns UnknownScene(from) when from is no key
\* of scene_bank (dest absent or not), else UnknownScene(dest) when dest is
\* none; in both cases members, edges and roots of the graph are as before,
\* and the unknown identifier has not become a member.
C18_LinkScenesValidatesFirst ==
    LET from == last.args[1]
        dest == last.args[2]
    IN  LastIs("link_scenes")
            => /\ from \notin DOMAIN pre.scene_bank
                   => /\ last.result = Err("UnknownScene", <<from>>)
                      /\ GraphUnchanged
                      /\ from \notin DOMAIN pre.edges => from \notin DOMAIN edges
               /\ (from \in DOMAIN pre.scene_bank /\ dest \notin DOMAIN pre.scene_bank)
                   => /\ last.result = Err("UnknownScene", <<dest>>)
                      /\ GraphUnchanged
                      /\ dest \notin DOMAIN pre.edges => dest \notin DOMAIN edges

\* C18 case: neither from nor dest is in scene_bank or in the graph, and the
\* graph has members.
C18_Witness ==
    /\ LastIs("link_scenes")
    /\ last.args[1] # last.args[2]
    /\ {last.args[1], last.args[2]} \cap (DOMAIN pre.scene_bank \cup DOMAIN edges) = {}
    /\ DOMAIN edges # {}
    /\ ~last.result.ok

\* C19: unlink_scenes(from, dest) returns UnknownScene(from) when from is no
\* key of scene_bank, else UnknownScene(dest) when dest is none, and leaves
\* the graph unchanged; with both in scene_bank it succeeds, and the graph is
\* unchanged when there was no edge from->dest.
C19_UnlinkScenesValidation ==
    LET from == last.args[1]
        dest == last.args[2]
    IN  LastIs("unlink_scenes")
            => /\ from \notin DOMAIN pre.scene_bank
                   => /\ last.result = Err("UnknownScene", <<from>>)
                      /\ GraphUnchanged
               /\ (from \in DOMAIN pre.scene_bank /\ dest \notin DOMAIN pre.scene_bank)
                   => /\ last.result = Err("UnknownScene", <<dest>>)
                      /\ GraphUnchanged
               /\ {from, dest} \subseteq DOMAIN pre.scene_bank
                   => /\ last.result = Unit
                      /\ dest \notin SceneGraph_next_scenes(pre.edges, from) => GraphUnchanged

\* C19 case: both scenes are in scene_bank, there is no edge from->dest, and
\* the graph has edges.
C19_Witness ==
    /\ LastIs("unlink_scenes")
    /\ {last.args[1], last.args[2]} \subseteq DOMAIN pre.scene_bank
    /\ last.args[2] \notin SceneGraph_next_scenes(pre.edges, last.args[1])
    /\ EdgeCount(pre.edges) > 0
    /\ last.result.ok

\* C20: every member and every root of the storyboard's graph is a key of
\* scene_bank.
C20_GraphWithinSceneBank ==
    /\ DOMAIN edges \subseteq DOMAIN scene_bank
    /\ roots \subseteq DOMAIN scene_bank

\* C21: Storyboard::move_scene(scene, from, dest) with one of the three no key
\* of scene_bank returns an error and leaves the graph unchanged.
C21_MoveSceneValidatesSceneBank ==
    (/\ LastIs("move_scene")
     /\ ~({last.args[1], last.args[2], last.args[3]} \subseteq DOMAIN pre.scene_bank))
        => /\ ~last.result.ok
           /\ GraphUnchanged

\* The scene_bank after touching the scenes of S once each and no other.
Touched(bank, S) == [k \in DOMAIN bank |-> IF k \in S THEN bank[k] + 1 ELSE bank[k]]

\* C22: a successful link_scenes or unlink_scenes with from # dest raises the
\* versions of from and dest by one each and no other; a successful
\* move_scene of three distinct scenes of scene_bank raises the versions of
\* scene, from and dest by one each and no other.
C22_SuccessTouchesReferencedScenes ==
    /\ (/\ LastIs("link_scenes") \/ LastIs("unlink_scenes")
        /\ last.result.ok
        /\ last.args[1] # last.args[2])
           => scene_bank = Touched(pre.scene_bank, {last.args[1], last.args[2]})
    /\ (/\ LastIs("move_scene")
        /\ last.result.ok
        /\ Cardinality({last.args[1], last.args[2], last.args[3]}) = 3
        /\ {last.args[1], last.args[2], last.args[3]} \subseteq DOMAIN pre.scene_bank)
           => scene_bank = Touched(pre.scene_bank, {last.args[1], last.args[2], last.args[3]})

\* C22 case: a move of three distinct scenes of scene_bank has succeeded.
C22_Witness ==
    /\ LastIs("move_scene")
    /\ last.result.ok
    /\ Cardinality({last.args[1], last.args[2], last.args[3]}) = 3
    /\ {last.args[1], last.args[2], last.args[3]} \subseteq DOMAIN pre.scene_bank
    /\ edges # pre.edges

\* C23: set_scene_as_root(id) with id in scene_bank raises the version of id
\* by one; add_scene(scene) stores the scene with a version one higher than
\* the one it was passed with.
C23_AddAndRootTouchTheScene ==
    /\ (LastIs("set_scene_as_root") /\ last.args[1] \in DOMAIN pre.scene_bank)
           => scene_bank[last.args[1]] = pre.scene_bank[last.args[1]] + 1
    /\ LastIs("add_scene") => scene_bank[last.args[1]] = last.args[2] + 1

\* C24: delete_scene(id) with id no key of scene_bank returns Ok and changes
\* neither scene_bank nor the graph, also when id is a graph member; with id
\* in scene_bank, id is afterwards no key of scene_bank, no member of the
\* graph, no root and in no successor set.
C24_StoryboardDeleteScene ==
    LET id == last.args[1] IN
    LastIs("delete_scene")
        => IF id \notin DOMAIN pre.scene_bank
           THEN /\ last.result = Unit
                /\ scene_bank = pre.scene_bank
                /\ GraphUnchanged
           ELSE /\ id \notin DOMAIN scene_bank
                /\ id \notin DOMAIN edges
                /\ id \notin roots
                /\ \A k \in DOMAIN edges : id \notin edges[k]

\* C24 case: the deleted scene was in scene_bank, was a root and had a
\* predecessor.
C24_Witness ==
    /\ LastIs("delete_scene")
    /\ last.args[1] \in DOMAIN pre.scene_bank
    /\ last.args[1] \in pre.roots
    /\ \E k \in DOMAIN edges : last.args[1] \in pre.edges[k]

\* C25: a move_scene, link_scenes, unlink_scenes or delete_scene that returns
\* an error leaves scene_bank (keys and versions), edges and roots as they
\* were.
C25_FailedOperationChangesNothing ==
    (/\ last.op \in {"move_scene", "link_scenes", "unlink_scenes", "delete_scene"}
     /\ ~last.result.ok)
        => /\ scene_bank = pre.scene_bank
           /\ GraphUnchanged

\* C25 case: a move of a scene of scene_bank was rejected after the scene had
\* been taken out of from's successors.
C25_Witness ==
    /\ LastIs("move_scene")
    /\ last.result.kind = "CycleDetected"
    /\ {last.args[1], last.args[2], last.args[3]} \subseteq DOMAIN pre.scene_bank

\* C27: every version in scene_bank is at least 1, the version of a new
\* scene; over a call that is no add_scene of it, the version of a scene that
\* stays in scene_bank does not decrease, and rises by the number of touches.
C27_VersionsMonotonic ==
    [][/\ \A k \in DOMAIN scene_bank' : scene_bank'[k] >= NewVersion
       /\ \A k \in (DOMAIN scene_bank) \cap (DOMAIN scene_bank') :
              ~(last'.op = "add_scene" /\ last'.args[1] = k)
                  => /\ scene_bank'[k] >= scene_bank[k]
                     /\ scene_bank'[k] - scene_bank[k]
                            = IF last'.result.ok /\ last'.op \in {"move_scene", "link_scenes", "unlink_scenes"}
                              THEN Occurrences(last'.args, k)
                              ELSE 0]_vars

\* C27 case: a successful move_scene, link_scenes or unlink_scenes has touched
\* a scene that stays in scene_bank and whose version was above that of a new
\* scene already.
C27_Witness ==
    /\ last.op \in {"move_scene", "link_scenes", "unlink_scenes"}
    /\ last.result.ok
    /\ \E k \in (DOMAIN pre.scene_bank) \cap (DOMAIN scene_bank) :
           /\ Occurrences(last.args, k) > 0
           /\ pre.scene_bank[k] > NewVersion
           /\ scene_bank[k] > pre.scene_bank[k]

\* How many scene lines of the output `out` show scene m.
SceneLinesOf(out, m) ==
    Cardinality({i \in 1..Len(out) : out[i].tag = "-" /\ out[i].id = m})

\* C26: over the output of one print_from(None), every scene some root
\* reaches has exactly one scene line.
C26_PrintedOnceOverall ==
    (LastIs("print_from") /\ last.args = <<>>)
        => \A m \in (DOMAIN edges) \ Unreached(edges, roots) :
               SceneLinesOf(last.result.ids, m) = 1

\* C29: for members scene and from with from # scene and scene a successor of
\* from, move_scene(scene, from, scene) returns CycleDetected(scene, scene)
\* and leaves the graph unchanged.
C29_MoveUnderItselfRejected ==
    LET scene == last.args[1]
        from == last.args[2]
    IN  (/\ LastIs("move_scene")
         /\ last.args[3] = scene
         /\ {scene, from} \subseteq DOMAIN pre.edges
         /\ from # scene
         /\ scene \in pre.edges[from])
            => /\ last.result = Err("CycleDetected", <<scene, scene>>)
               /\ edges = pre.edges
               /\ roots = pre.roots

\* C29 case: the scene moved under itself is on no cycle.
C29_Witness ==
    /\ LastIs("move_scene")
    /\ last.args[3] = last.args[1]
    /\ last.args[2] # last.args[1]
    /\ last.result.kind = "CycleDetected"
    /\ last.args[1] \notin Descendants(pre.edges, last.args[1])

\* C30: is_descendant(start, target) leaves its loop after at most one pop
\* more than there are edges, and returns true exactly if target is start or
\* is reached from start, under every iteration order; the loop of
\* unreachable_scenes ends after at most as many pops as there are roots and
\* edges.
C30_DescendantCheckIsReachability ==
    /\ LastIs("is_descendant")
           => LET start == last.args[1]
                  target == last.args[2]
                  reached == target = start \/ target \in Descendants(edges, start)
              IN  /\ last.result = Bool(reached)
                  /\ \A ord \in Orderings(edges, roots) :
                         LET run == is_descendant_run(edges, <<start>>, {}, target, ord, 0)
                         IN  /\ run.found = reached
                             /\ run.pops <= 1 + EdgeCount(edges)
                             /\ SceneGraph_is_descendant(edges, start, target, ord) = reached
    /\ LastIs("unreachable_scenes")
           => \A ord \in Orderings(edges, roots) :
                  unreachable_scenes_pops(edges, iter(roots, ord.roots), {}, ord, 0)
                      <= Cardinality(roots) + EdgeCount(edges)

\* C30 case: start is on a cycle with a self-loop and does not reach target.
C30_Witness ==
    /\ LastIs("is_descendant")
    /\ last.result = Bool(FALSE)
    /\ last.args[1] \in SceneGraph_next_scenes(edges, last.args[1])
    /\ \E x \in Ids \ {last.args[1]} :
           /\ x \in Descendants(edges, last.args[1])
           /\ last.args[1] \in Descendants(edges, x)

\* C34: a successful move_scene with from # dest leaves the number of edges
\* as it was: scene was no successor of dest, one edge is removed and one
\* added; a call with scene a successor of both from and dest fails with
\* CycleDetected.
C34_MoveKeepsEdgeCount ==
    LET scene == last.args[1]
        from == last.args[2]
        dest == last.args[3]
    IN  (LastIs("move_scene") /\ from # dest)
            => /\ last.result.ok
                   => /\ EdgeCount(edges) = EdgeCount(pre.edges)
                      /\ scene \in pre.edges[from] /\ scene \notin edges[from]
                      /\ scene \notin pre.edges[dest] /\ scene \in edges[dest]
               /\ (/\ {scene, from, dest} \subseteq DOMAIN pre.edges
                   /\ scene \in pre.edges[from]
                   /\ scene \in pre.edges[dest])
                   => last.result = Err("CycleDetected", <<scene, dest>>)

\* C34 case: a move of a scene that was a successor of both from and dest has
\* been rejected.
C34_Witness ==
    /\ LastIs("move_scene")
    /\ last.args[2] # last.args[3]
    /\ last.args[1] \notin {last.args[2], last.args[3]}
    /\ last.result.kind = "CycleDetected"
    /\ last.args[1] \in pre.edges[last.args[3]]

(***************************************************************************)
(* Properties of Title                                                     *)
(***************************************************************************)

\* The characters of str that are no whitespace, in order.
Solid(str) == SelectSeq(str, LAMBDA c : ~char_is_whitespace(c))

\* The positions of str at which a word ends: those of a non-whitespace
\* character that is the last one or has whitespace after it, each counted
\* by the number of non-whitespace characters up to it.
WordEnds(str) ==
    {Len(Solid(SubSeq(str, 1, i))) :
        i \in {j \in 1..Len(str) :
                  /\ ~char_is_whitespace(str[j])
                  /\ j = Len(str) \/ char_is_whitespace(str[j + 1])}}

\* str has no whitespace but single spaces between two other characters.
Normalised(str) ==
    \A i \in 1..Len(str) :
        char_is_whitespace(str[i])
            => /\ str[i] = " "
               /\ 1 < i /\ i < Len(str)
               /\ ~char_is_whitespace(str[i + 1])

\* C28: the title Title::new stores for an accepted input is the input's
\* words joined by single spaces: it has the input's non-whitespace
\* characters in the input's words, and no whitespace but single spaces
\* between words; the test's input yields the test's title; Title::new of the
\* stored title yields the same title.
C28_TitleIsNormalised ==
    (LastIs("Title::new") /\ last.result.ok)
        => LET input == last.args[1]
               title == Title_as_str(last.result)
           IN  /\ Normalised(title)
               /\ Solid(title) = Solid(input)
               /\ WordEnds(title) = WordEnds(input)
               /\ input = ExampleInput => title = ExampleTitle
               /\ Title_new(title) = last.result

\* C28 case: an input of two words with a tab and a space between them has
\* been accepted.
C28_Witness ==
    /\ LastIs("Title::new")
    /\ last.result.ok
    /\ last.args[1] = <<"a", "TAB", " ", "a">>
    /\ Title_as_str(last.result) = <<"a", " ", "a">>

\* C33: every key of scene_bank is a member of the graph; delete_scene never
\* returns an error; unlink_scenes never returns SceneNotInGraph.
C33_ContentImpliesStructure ==
    /\ DOMAIN scene_bank \subseteq DOMAIN edges
    /\ LastIs("delete_scene") => last.result = Unit
    /\ LastIs("unlink_scenes") => last.result.kind # "SceneNotInGraph"

\* C33 case: a scene of scene_bank has been deleted from a storyboard whose
\* graph has a member without content, and scenes remain.
C33_Witness ==
    /\ LastIs("delete_scene")
    /\ last.args[1] \in DOMAIN pre.scene_bank
    /\ DOMAIN scene_bank # {}
    /\ DOMAIN edges # DOMAIN scene_bank

\* C35: a link_scenes, unlink_scenes or move_scene that succeeds and leaves
\* the graph as it was raises the version of every scene of scene_bank by the
\* number of times the call names it: by 2 for from = dest.
C35_TouchesFollowNotification ==
    (/\ last.op \in {"link_scenes", "unlink_scenes", "move_scene"}
     /\ last.result.ok
     /\ GraphUnchanged)
        => /\ DOMAIN scene_bank = DOMAIN pre.scene_bank
           /\ \A k \in DOMAIN scene_bank :
                  scene_bank[k] = pre.scene_bank[k] + Occurrences(last.args, k)
           /\ (LastIs("link_scenes") /\ last.args[1] = last.args[2])
                  => scene_bank[last.args[1]] = pre.scene_bank[last.args[1]] + 2
           /\ (LastIs("move_scene") /\ last.args[1] # last.args[2]
                   /\ last.args[2] \in DOMAIN scene_bank)
                  => scene_bank[last.args[2]] = pre.scene_bank[last.args[2]] + 2

\* C35 case: a move_scene with from = dest, both scenes in scene_bank, has
\* succeeded.
C35_Witness ==
    /\ LastIs("move_scene")
    /\ last.result.ok
    /\ last.args[2] = last.args[3]
    /\ last.args[1] # last.args[2]
    /\ {last.args[1], last.args[2]} \subseteq DOMAIN scene_bank
    /\ GraphUnchanged

\* C36: a graph member that is no key of scene_bank stays a member, and a root
\* if it is one, over every call; a delete_scene of it returns Ok and changes
\* nothing; after the call it is a root or a scene standalone_scenes reports.
C36_MemberWithoutContentStays ==
    [][\A id \in Ids :
          (id \in DOMAIN edges /\ id \notin DOMAIN scene_bank)
              => /\ id \in DOMAIN edges'
                 /\ id \in roots => id \in roots'
                 /\ (last'.op = "delete_scene" /\ last'.args = <<id>>)
                        => /\ last'.result = Unit
                           /\ edges' = edges
                           /\ roots' = roots
                           /\ scene_bank' = scene_bank
                 /\ \/ id \in roots'
                    \/ \A ord \in Orderings(edges', roots') :
                           id \in Storyboard_standalone_scenes(scene_bank', edges', roots', ord)]_vars

\* C36 case: delete_scene has been called on a root that is no key of
\* scene_bank.
C36_Witness ==
    /\ LastIs("delete_scene")
    /\ last.args[1] \notin DOMAIN pre.scene_bank
    /\ last.args[1] \in DOMAIN edges
    /\ last.args[1] \in roots
    /\ DOMAIN scene_bank # {}

\* C37: delete_scene(id) takes id out of scene_bank at most and changes the
\* version of no scene that remains.
C37_DeleteTouchesNoOtherScene ==
    LastIs("delete_scene")
        => /\ DOMAIN scene_bank = (DOMAIN pre.scene_bank) \ {last.args[1]}
           /\ \A k \in DOMAIN scene_bank : scene_bank[k] = pre.scene_bank[k]

\* C37 case: the deleted scene had a predecessor and a successor in
\* scene_bank, and both remain.
C37_Witness ==
    /\ LastIs("delete_scene")
    /\ last.args[1] \in DOMAIN pre.scene_bank
    /\ \E k \in DOMAIN scene_bank : last.args[1] \in pre.edges[k]
    /\ \E k \in DOMAIN scene_bank : k \in pre.edges[last.args[1]]

(***************************************************************************)
(* Properties of the earlier SceneGraph                                    *)
(***************************************************************************)

\* C31: the earlier move_scene, called with three members and scene a
\* successor of from, returns CycleDetected(scene, to) exactly when `to` is
\* scene or is reached from scene once the edge from->scene is removed, and
\* on no other call; on that error the graph is as before the call, and when
\* it succeeds on an acyclic graph the graph stays acyclic.
C31_EarlierMoveDetectsCycles ==
    LET scene == last.args[1]
        from == last.args[2]
        to == last.args[3]
        valid == /\ {scene, from, to} \subseteq DOMAIN pre.edges
                 /\ scene \in pre.edges[from]
        reached == \/ to = scene
                   \/ to \in Descendants(remove_from(pre.edges, from, scene), scene)
    IN  LastIs("move_scene")
            => /\ last.result.kind = "CycleDetected" <=> (valid /\ reached)
               /\ last.result.kind = "CycleDetected"
                      => /\ last.result = Err("CycleDetected", <<scene, to>>)
                         /\ edges = pre.edges
                         /\ roots = pre.roots
               /\ (valid /\ ~reached)
                      => /\ last.result = Ok("Move", <<scene, from, to>>)
                         /\ edges = Reparented(pre.edges, scene, from, to)
                         /\ Acyclic(pre.edges) => Acyclic(edges)

\* C31 case: a move on an acyclic graph that would have closed a cycle through
\* another scene was rejected.
C31_Witness ==
    /\ LastIs("move_scene")
    /\ last.result.kind = "CycleDetected"
    /\ last.args[1] # last.args[3]
    /\ Acyclic(pre.edges)
    /\ last.args[1] \in pre.edges[last.args[2]]

(***************************************************************************)
(* Properties of CharacterName and AuthorName                              *)
(***************************************************************************)

\* C32: for an input whose normalised name is not empty and has no control
\* character, CharacterName::new accepts the name when AuthorName::new does:
\* it returns the name when its length is at most 100, and NameTooLong only
\* when its length exceeds 100.
C32_CharacterNameLimitAsAuthorName ==
    LET input == last.args[1]
        name == trim_input(input)
    IN  (/\ LastIs("CharacterName::new")
         /\ name # <<>>
         /\ ~has_control_chars(name))
            => /\ last.result.ok = AuthorName_new(input).ok
               /\ Len(name) <= 100 => last.result = Ok("CharacterName", name)
               /\ last.result.kind = "NameTooLong" => Len(name) > 100

====
